---- MODULE Spec2Model ----
(***************************************************************************)
(* Occupation browser core: the taxonomy builder (organizeOccupations) and *)
(* the search engine (EnhancedSearchEngine) over a flat list of coded      *)
(* occupation records.                                                     *)
(*                                                                         *)
(* Strings are sequences of one-character strings, so that slicing,        *)
(* splitting, lower-casing and comparison are computed character by        *)
(* character as the code computes them.  Display strings that are built by *)
(* template literals are sequences of pieces (a piece is a character or a  *)
(* whole table entry).                                                     *)
(***************************************************************************)
EXTENDS Integers, Sequences, FiniteSets, TLC

VARIABLES
    occupations,    \* the record list held by the browser and the engine
    query,          \* argument of search: the query text
    filters,        \* argument of search: the SearchFilters, or NoFilters
    limit,          \* argument of search: the requested limit
    fuseScore,      \* what Fuse's index answers for this query, per record
    tree,           \* value returned by the last organizeOccupations call
    prevTree,       \* value returned by the call before that one
    organizeCalls,  \* number of organizeOccupations calls made (capped)
    searchCalled,   \* whether search has been called
    searchOut,      \* outcome of the last search call: a list or a throw
    filtersCalled,  \* whether getAvailableFilters has been called
    availableFilters, \* value returned by the last getAvailableFilters call
    searchTerm,     \* browser: the text of the search box
    showFilters,    \* browser: whether the filter panel is open
    loading,        \* browser: whether the records are still being loaded
    cardResult,     \* result card: the SearchResult given to SearchResultCard
    cardNodes       \* result card: the nodes rendered for its four texts

vars == <<occupations, query, filters, limit, fuseScore,
          tree, prevTree, organizeCalls, searchCalled, searchOut,
          filtersCalled, availableFilters, searchTerm, showFilters, loading,
          cardResult, cardNodes>>

(***************************************************************************)
(* Bounds of the model.                                                    *)
(***************************************************************************)
MaxRecords == 2         \* longest record list given to the tree builder
MaxLimit == 2           \* largest limit passed to search
MaxCalls == 2           \* organizeOccupations calls that are counted

\* search called without its optional filters argument
NoFilters == [given |-> FALSE, iscoMajorGroups |-> {}, occupationTypes |-> {}]

\* A SearchFilters value; the two arrays are read only through includes and
\* length, so each is the set of its elements.
Filters(majors, types) ==
    [given |-> TRUE, iscoMajorGroups |-> majors, occupationTypes |-> types]

(***************************************************************************)
(* Characters.                                                             *)
(***************************************************************************)
\* UTF-16 code unit of a character: the order of the < and <= operators on
\* strings, i.e. plain lexicographic order.
CodeUnit(c) ==
    CASE c = " " -> 32 [] c = "(" -> 40 [] c = "." -> 46
      [] c = "1" -> 49 [] c = "2" -> 50 [] c = "3" -> 51 [] c = "5" -> 53
      [] c = "B" -> 66 [] c = "D" -> 68
      [] c = "a" -> 97 [] c = "b" -> 98 [] c = "d" -> 100 [] c = "e" -> 101
      [] c = "v" -> 118 [] c = "x" -> 120 [] c = "y" -> 121

\* String.prototype.toLowerCase, one character.
LowerChar(c) ==
    CASE c = "B" -> "b" [] c = "D" -> "d" [] OTHER -> c

\* Primary collation weight used by String.prototype.localeCompare: white
\* space, then punctuation, then digits, then letters in alphabetical order
\* whatever their case.
CollationPrimary(c) ==
    CASE c = " " -> 1 [] c = "." -> 2 [] c = "(" -> 3
      [] c = "1" -> 11 [] c = "2" -> 12 [] c = "3" -> 13 [] c = "5" -> 15
      [] c \in {"a"} -> 21 [] c \in {"b", "B"} -> 22
      [] c \in {"d", "D"} -> 24 [] c = "e" -> 25 [] c = "v" -> 42

\* Case level of localeCompare: lower case sorts before upper case when the
\* strings are equal on the primary weights.
CollationCase(c) == IF c \in {"B", "D"} THEN 1 ELSE 0

RECURSIVE CompareFrom(_, _, _)
\* Three-way lexicographic comparison of the weight sequences wa and wb from
\* position i on; a proper prefix sorts first.
CompareFrom(wa, wb, i) ==
    IF i > Len(wa) /\ i > Len(wb) THEN 0
    ELSE IF i > Len(wa) THEN -1
    ELSE IF i > Len(wb) THEN 1
    ELSE IF wa[i] < wb[i] THEN -1
    ELSE IF wa[i] > wb[i] THEN 1
    ELSE CompareFrom(wa, wb, i + 1)

CodeUnits(s) == [i \in 1..Len(s) |-> CodeUnit(s[i])]

\* a <= b in code-unit (lexicographic) order.
LexLeq(a, b) == CompareFrom(CodeUnits(a), CodeUnits(b), 1) <= 0

\* a.localeCompare(b): negative, zero or positive.
localeCompare(a, b) ==
    LET p == CompareFrom([i \in 1..Len(a) |-> CollationPrimary(a[i])],
                         [i \in 1..Len(b) |-> CollationPrimary(b[i])], 1)
    IN  IF p # 0 THEN p
        ELSE CompareFrom([i \in 1..Len(a) |-> CollationCase(a[i])],
                         [i \in 1..Len(b) |-> CollationCase(b[i])], 1)

(***************************************************************************)
(* String operations.                                                      *)
(***************************************************************************)
Min(a, b) == IF a < b THEN a ELSE b

\* s.substring(0, n)
Substring0(s, n) == SubSeq(s, 1, Min(n, Len(s)))

\* s.slice(0, n) on arrays, n >= 0
Slice0(s, n) == SubSeq(s, 1, Min(n, Len(s)))

IsPrefix(p, s) == Len(p) <= Len(s) /\ SubSeq(s, 1, Len(p)) = p

\* s.split('.')[0]: the part of s before the first '.'
SplitDotFirst(s) ==
    IF \E i \in 1..Len(s) : s[i] = "."
    THEN LET d == CHOOSE i \in 1..Len(s) :
                      s[i] = "." /\ \A j \in 1..(i - 1) : s[j] # "."
         IN  SubSeq(s, 1, d - 1)
    ELSE s

toLowerCase(s) == [i \in 1..Len(s) |-> LowerChar(s[i])]

\* s.trim(): the only white space in the model is the blank
RECURSIVE trimStart(_)
trimStart(s) == IF s # <<>> /\ Head(s) = " " THEN trimStart(Tail(s)) ELSE s
RECURSIVE trimEnd(_)
trimEnd(s) ==
    IF s # <<>> /\ s[Len(s)] = " " THEN trimEnd(SubSeq(s, 1, Len(s) - 1)) ELSE s
trim(s) == trimEnd(trimStart(s))

\* hay.includes(needle)
includes(hay, needle) ==
    \E i \in 1..(Len(hay) - Len(needle) + 1) :
        SubSeq(hay, i, i + Len(needle) - 1) = needle

(***************************************************************************)
(* Records.  An Occupation carries the fields the tree builder and the     *)
(* search engine read.                                                     *)
(***************************************************************************)
Occ(k, c, l, t) ==
    [keyId |-> k, code |-> c, preferredLabel |-> l, occupationType |-> t]

\* Records given to the tree builder: codes of every length from 0 to 5,
\* with and without a '.' suffix, with a leading '.', with letters of both
\* cases, and two different records sharing one code.
TreePool ==
    { Occ("k00", <<>>, <<"a">>, <<>>),
      Occ("k01", <<".", "1">>, <<"a">>, <<>>),
      Occ("k02", <<"2">>, <<"a">>, <<>>),
      Occ("k03", <<"2", "5">>, <<"a">>, <<"y">>),
      Occ("k04", <<"2", "5">>, <<"b">>, <<>>),
      Occ("k05", <<"2", "5", ".", "1">>, <<"a">>, <<>>),
      Occ("k06", <<"2", "5", "1">>, <<"a">>, <<>>),
      Occ("k07", <<"2", "5", "1", "1">>, <<"a">>, <<>>),
      Occ("k08", <<"2", "5", "1", "2">>, <<"a">>, <<"x">>),
      Occ("k09", <<"2", "5", "1", "2", ".", "1">>, <<"a">>, <<>>),
      Occ("k10", <<"2", "5", "1", "2", "1">>, <<"a">>, <<>>),
      Occ("k11", <<"1", "3">>, <<"a">>, <<"x">>),
      Occ("k12", <<"a", "1">>, <<"a">>, <<"a">>),
      Occ("k13", <<"B", "1">>, <<"a">>, <<"B">>) }

\* Records given to the search engine: with and without a code, of two
\* major groups and two occupation types, with labels that contain the
\* queries at a word boundary or inside a word.
SearchPool ==
    { Occ("s1", <<"2", "5", "1", "2">>, <<"D", "e", "v">>, <<"x">>),
      Occ("s2", <<"1", "3">>, <<"a", " ", "d", "e">>, <<"y">>),
      Occ("s3", <<>>, <<"a", "d", "e">>, <<"x">>) }

\* Sequences over S of length at most n.
SeqsUpTo(S, n) == UNION { [1..k -> S] : k \in 0..n }

\* Sequences over S without repetition, of every length.
InjSeqs(S) ==
    { s \in SeqsUpTo(S, Cardinality(S)) :
        \A i, j \in 1..Len(s) : s[i] = s[j] => i = j }

(***************************************************************************)
(* Category names of the tree builder (the entries whose codes are written *)
(* with the digits 1, 2, 3, 5 of the model).                               *)
(***************************************************************************)
TreeMajorNames ==
    (<<"1">> :> "Managers")
    @@ (<<"2">> :> "Professionals")
    @@ (<<"3">> :> "Technicians and associate professionals")
    @@ (<<"5">> :> "Service and sales workers")

TreeSubMajorNames ==
    (<<"1", "1">> :> "Chief executives, senior officials and legislators")
    @@ (<<"1", "2">> :> "Administrative and commercial managers")
    @@ (<<"1", "3">> :> "Production and specialised services managers")
    @@ (<<"2", "1">> :> "Science and engineering professionals")
    @@ (<<"2", "2">> :> "Health professionals")
    @@ (<<"2", "3">> :> "Teaching professionals")
    @@ (<<"2", "5">> :> "Information and communications technology professionals")
    @@ (<<"3", "1">> :> "Science and engineering associate professionals")
    @@ (<<"3", "2">> :> "Health associate professionals")
    @@ (<<"3", "3">> :> "Business and administration associate professionals")
    @@ (<<"3", "5">> :> "Information and communications technicians")
    @@ (<<"5", "1">> :> "Personal service workers")
    @@ (<<"5", "2">> :> "Sales workers")
    @@ (<<"5", "3">> :> "Personal care workers")

TreeMinorNames ==
    (<<"1", "1", "1">> :> "Legislators and senior officials")
    @@ (<<"1", "1", "2">> :> "Managing directors and chief executives")
    @@ (<<"1", "2", "1">> :> "Business services and administration managers")
    @@ (<<"1", "2", "2">> :> "Sales, marketing and development managers")
    @@ (<<"1", "3", "1">> :> "Production managers in agriculture, forestry and fisheries")
    @@ (<<"1", "3", "2">> :> "Manufacturing, mining, construction, and distribution managers")
    @@ (<<"1", "3", "3">> :> "Information and communications technology service managers")
    @@ (<<"2", "1", "1">> :> "Physical and earth science professionals")
    @@ (<<"2", "1", "2">> :> "Mathematicians, actuaries and statisticians")
    @@ (<<"2", "1", "3">> :> "Life science professionals")
    @@ (<<"2", "1", "5">> :> "Electrotechnology engineers")
    @@ (<<"2", "2", "1">> :> "Medical doctors")
    @@ (<<"2", "2", "2">> :> "Nursing and midwifery professionals")
    @@ (<<"2", "2", "3">> :> "Traditional and complementary medicine professionals")
    @@ (<<"2", "2", "5">> :> "Veterinarians")
    @@ (<<"2", "3", "1">> :> "University and higher education teachers")
    @@ (<<"2", "3", "2">> :> "Vocational education teachers")
    @@ (<<"2", "3", "3">> :> "Secondary education teachers")
    @@ (<<"2", "3", "5">> :> "Other teaching professionals")
    @@ (<<"2", "5", "1">> :> "Software and applications developers and analysts")
    @@ (<<"2", "5", "2">> :> "Database and network professionals")
    @@ (<<"3", "1", "1">> :> "Physical and engineering science technicians")
    @@ (<<"3", "1", "2">> :> "Mining, manufacturing and construction supervisors")
    @@ (<<"3", "1", "3">> :> "Process control technicians")
    @@ (<<"3", "1", "5">> :> "Ship and aircraft controllers and technicians")
    @@ (<<"3", "2", "1">> :> "Medical and pharmaceutical technicians")
    @@ (<<"3", "2", "2">> :> "Nursing and midwifery associate professionals")
    @@ (<<"3", "2", "3">> :> "Traditional and complementary medicine associate professionals")
    @@ (<<"3", "2", "5">> :> "Other health associate professionals")
    @@ (<<"3", "3", "1">> :> "Financial and mathematical associate professionals")
    @@ (<<"3", "3", "2">> :> "Sales and purchasing agents and brokers")
    @@ (<<"3", "3", "3">> :> "Business services agents")
    @@ (<<"3", "3", "5">> :> "Regulatory government associate professionals")
    @@ (<<"3", "5", "1">> :> "Information and communications technology operations technicians")
    @@ (<<"3", "5", "2">> :> "Telecommunications and broadcasting technicians")

TreeUnitNames ==
    (<<"1", "1", "1", "1">> :> "Legislators")
    @@ (<<"1", "1", "1", "2">> :> "Senior government officials")
    @@ (<<"1", "1", "1", "3">> :> "Traditional chiefs and heads of village")
    @@ (<<"1", "2", "1", "1">> :> "Finance managers")
    @@ (<<"1", "2", "1", "2">> :> "Human resource managers")
    @@ (<<"1", "2", "1", "3">> :> "Policy and planning managers")
    @@ (<<"1", "2", "2", "1">> :> "Sales and marketing managers")
    @@ (<<"1", "2", "2", "2">> :> "Advertising and public relations managers")
    @@ (<<"1", "2", "2", "3">> :> "Research and development managers")
    @@ (<<"1", "3", "1", "1">> :> "Agricultural and forestry production managers")
    @@ (<<"1", "3", "1", "2">> :> "Aquaculture and fisheries production managers")
    @@ (<<"1", "3", "2", "1">> :> "Manufacturing managers")
    @@ (<<"1", "3", "2", "2">> :> "Mining managers")
    @@ (<<"1", "3", "2", "3">> :> "Construction managers")
    @@ (<<"2", "1", "1", "1">> :> "Physicists and astronomers")
    @@ (<<"2", "1", "1", "2">> :> "Meteorologists")
    @@ (<<"2", "1", "1", "3">> :> "Chemists")
    @@ (<<"2", "1", "3", "1">> :> "Biologists, botanists, zoologists and related professionals")
    @@ (<<"2", "1", "3", "2">> :> "Farming, forestry and fisheries advisers")
    @@ (<<"2", "1", "3", "3">> :> "Environmental protection professionals")
    @@ (<<"2", "1", "5", "1">> :> "Electrical engineers")
    @@ (<<"2", "1", "5", "2">> :> "Electronics engineers")
    @@ (<<"2", "1", "5", "3">> :> "Telecommunications engineers")

\* names[code] || `Group ${code}`
NameIn(names, code) ==
    IF code \in DOMAIN names THEN <<names[code]>> ELSE <<"Group ">> \o code

getMajorGroupName(code) == NameIn(TreeMajorNames, code)
getSubMajorGroupName(code) == NameIn(TreeSubMajorNames, code)
getMinorGroupName(code) == NameIn(TreeMinorNames, code)
getUnitGroupName(code) == NameIn(TreeUnitNames, code)

(***************************************************************************)
(* organizeOccupations.                                                    *)
(*                                                                         *)
(* An OccupationGroup is [code, name, children]; a child is either an      *)
(* OccupationGroup or the Occupation record itself, told apart, as in the  *)
(* code, by the presence of the children field.                            *)
(***************************************************************************)
IsGroup(child) == "children" \in DOMAIN child

NewGroup(c, n) == [code |-> c, name |-> n, children |-> <<>>]

\* The map kept from the previous call instead of a new one.
EmptyGroupsKept == tree

\* const groups = new Map(): the groups in insertion order.
EmptyGroups == <<>>

\* children.find(child => 'children' in child && child.code === c)
HasGroup(children, c) ==
    \E i \in 1..Len(children) : IsGroup(children[i]) /\ children[i].code = c

\* find without the comparison of the code: the first group of the list.
FindGroupAnyCode(children, c) ==
    CHOOSE i \in 1..Len(children) :
        /\ IsGroup(children[i])
        /\ \A j \in 1..(i - 1) : ~IsGroup(children[j])

FindGroup(children, c) ==
    CHOOSE i \in 1..Len(children) :
        /\ IsGroup(children[i]) /\ children[i].code = c
        /\ \A j \in 1..(i - 1) : ~(IsGroup(children[j]) /\ children[j].code = c)

\* A new group made for every record, whether or not one exists.
EnsureGroupAlwaysNew(children, c, n) == Append(children, NewGroup(c, n))

\* if (!obj) { obj = {code, name, children: []}; children.push(obj) }
EnsureGroup(children, c, n) ==
    IF HasGroup(children, c) THEN children ELSE Append(children, NewGroup(c, n))

\* The child pushed twice.
PushTwice(group, child) ==
    [group EXCEPT !.children = Append(Append(@, child), child)]

\* The child not pushed.
PushDropped(group, child) == group

\* group.children.push(child)
Push(group, child) == [group EXCEPT !.children = Append(@, child)]

\* The unit level without its else branch: a record whose code does not
\* reach the unit level is not added.
PlaceInMinorUnitOnly(minorGroupObj, unitGroup, occupation) ==
    IF Len(unitGroup) = 4
    THEN LET ch == EnsureGroup(minorGroupObj.children, unitGroup,
                               getUnitGroupName(unitGroup))
             u  == FindGroup(ch, unitGroup)
         IN  [minorGroupObj EXCEPT
                 !.children = [ch EXCEPT ![u] = Push(ch[u], occupation)]]
    ELSE minorGroupObj

\* The unit level of the forEach body: below a minor group.
PlaceInMinor(minorGroupObj, unitGroup, occupation) ==
    IF Len(unitGroup) = 4
    THEN LET ch == EnsureGroup(minorGroupObj.children, unitGroup,
                               getUnitGroupName(unitGroup))
             u  == FindGroup(ch, unitGroup)
         IN  [minorGroupObj EXCEPT
                 !.children = [ch EXCEPT ![u] = Push(ch[u], occupation)]]
    ELSE Push(minorGroupObj, occupation)

\* The minor level with the branch for 4-character codes taken first: the
\* unit group is made directly below the sub-major group.
PlaceInSubMajorUnitFirst(subMajorGroupObj, minorGroup, unitGroup, occupation) ==
    IF Len(unitGroup) = 4
    THEN LET ch == EnsureGroup(subMajorGroupObj.children, unitGroup,
                               getUnitGroupName(unitGroup))
             u  == FindGroup(ch, unitGroup)
         IN  [subMajorGroupObj EXCEPT
                 !.children = [ch EXCEPT ![u] = Push(ch[u], occupation)]]
    ELSE IF Len(minorGroup) = 3
    THEN LET ch == EnsureGroup(subMajorGroupObj.children, minorGroup,
                               getMinorGroupName(minorGroup))
             m  == FindGroup(ch, minorGroup)
         IN  [subMajorGroupObj EXCEPT
                 !.children =
                     [ch EXCEPT ![m] = PlaceInMinor(ch[m], unitGroup, occupation)]]
    ELSE Push(subMajorGroupObj, occupation)

\* The minor level of the forEach body: below a sub-major group.
PlaceInSubMajor(subMajorGroupObj, minorGroup, unitGroup, occupation) ==
    IF Len(minorGroup) = 3
    THEN LET ch == EnsureGroup(subMajorGroupObj.children, minorGroup,
                               getMinorGroupName(minorGroup))
             m  == FindGroup(ch, minorGroup)
         IN  [subMajorGroupObj EXCEPT
                 !.children =
                     [ch EXCEPT ![m] = PlaceInMinor(ch[m], unitGroup, occupation)]]
    ELSE IF Len(unitGroup) = 4
    THEN LET ch == EnsureGroup(subMajorGroupObj.children, unitGroup,
                               getUnitGroupName(unitGroup))
             u  == FindGroup(ch, unitGroup)
         IN  [subMajorGroupObj EXCEPT
                 !.children = [ch EXCEPT ![u] = Push(ch[u], occupation)]]
    ELSE Push(subMajorGroupObj, occupation)

\* The sub-major level of the forEach body: below a major group.
PlaceInMajor(majorGroupObj, subMajorGroup, minorGroup, unitGroup, occupation) ==
    IF Len(subMajorGroup) = 2
    THEN LET ch == EnsureGroup(majorGroupObj.children, subMajorGroup,
                               getSubMajorGroupName(subMajorGroup))
             s  == FindGroup(ch, subMajorGroup)
         IN  [majorGroupObj EXCEPT
                 !.children =
                     [ch EXCEPT ![s] = PlaceInSubMajor(ch[s], minorGroup,
                                                       unitGroup, occupation)]]
    ELSE Push(majorGroupObj, occupation)

\* const unitGroup = mainCode
UnitGroupOf(mainCode) == mainCode

\* One iteration of occupations.forEach: the groups after placing occupation.
PlaceOccupation(groups, occupation) ==
    LET code == occupation.code
        mainCode == SplitDotFirst(code)
    IN  IF code = <<>> THEN groups
        ELSE IF mainCode = <<>> THEN groups
        ELSE LET majorGroup == Substring0(mainCode, 1)
                 subMajorGroup == Substring0(mainCode, 2)
                 minorGroup == Substring0(mainCode, 3)
                 unitGroup == UnitGroupOf(mainCode)
                 gs == IF \E i \in 1..Len(groups) : groups[i].code = majorGroup
                       THEN groups
                       ELSE Append(groups, NewGroup(majorGroup,
                                           getMajorGroupName(majorGroup)))
                 g  == CHOOSE i \in 1..Len(gs) : gs[i].code = majorGroup
             IN  [gs EXCEPT ![g] = PlaceInMajor(gs[g], subMajorGroup,
                                                minorGroup, unitGroup, occupation)]

RECURSIVE PlaceAll(_, _)
\* occupations.forEach(...) starting from the groups gs
PlaceAll(gs, occs) ==
    IF occs = <<>> THEN gs
    ELSE PlaceAll(PlaceOccupation(gs, Head(occs)), Tail(occs))

\* The comparator of both sorts: a.code.localeCompare(b.code)
CompareCodes(a, b) == localeCompare(a.code, b.code)

RECURSIVE InsertSorted(_, _)
\* x put into the sorted list s after every element that does not compare
\* greater than x
InsertSorted(s, x) ==
    IF s = <<>> THEN <<x>>
    ELSE IF CompareCodes(Head(s), x) <= 0
         THEN <<Head(s)>> \o InsertSorted(Tail(s), x)
         ELSE <<x>> \o s

RECURSIVE SortFrom(_, _)
SortFrom(sorted, rest) ==
    IF rest = <<>> THEN sorted
    ELSE SortFrom(InsertSorted(sorted, Head(rest)), Tail(rest))

\* The sort left out: the list in insertion order.
SortByCodeLeftOut(s) == s

\* Array.prototype.sort with the code comparator: a stable sort
SortByCode(s) == SortFrom(<<>>, s)

RECURSIVE sortChildren(_)
\* sortChildren(group): sorts the children, then each child group
sortChildren(group) ==
    LET sorted == SortByCode(group.children)
    IN  [group EXCEPT
            !.children = [i \in 1..Len(sorted) |->
                            IF IsGroup(sorted[i]) THEN sortChildren(sorted[i])
                            ELSE sorted[i]]]

organizeOccupations(occs) ==
    LET groups == PlaceAll(EmptyGroups, occs)
        sortedGroups == SortByCode(groups)
    IN  [i \in 1..Len(sortedGroups) |-> sortChildren(sortedGroups[i])]

(***************************************************************************)
(* EnhancedSearchEngine.                                                   *)
(***************************************************************************)
\* Category names of the engine's own helper methods (same restriction to
\* the digits of the model).
EngineMajorNames ==
    (<<"1">> :> "Managers")
    @@ (<<"2">> :> "Professionals")
    @@ (<<"3">> :> "Technicians and associate professionals")
    @@ (<<"5">> :> "Service and sales workers")

EngineSubMajorNames ==
    (<<"1", "1">> :> "Chief executives, senior officials and legislators")
    @@ (<<"1", "2">> :> "Administrative and commercial managers")
    @@ (<<"1", "3">> :> "Production and specialised services managers")
    @@ (<<"2", "1">> :> "Science and engineering professionals")
    @@ (<<"2", "2">> :> "Health professionals")
    @@ (<<"2", "3">> :> "Teaching professionals")
    @@ (<<"2", "5">> :> "Information and communications technology professionals")

EngineMinorNames ==
    (<<"1", "1", "1">> :> "Legislators and senior officials")
    @@ (<<"1", "1", "2">> :> "Managing directors and chief executives")
    @@ (<<"1", "2", "1">> :> "Business services and administration managers")
    @@ (<<"1", "2", "2">> :> "Sales, marketing and development managers")
    @@ (<<"2", "1", "1">> :> "Physical and earth science professionals")
    @@ (<<"2", "1", "2">> :> "Mathematicians, actuaries and statisticians")

EngineMajorGroupName(code) == NameIn(EngineMajorNames, code)
EngineSubMajorGroupName(code) == NameIn(EngineSubMajorNames, code)
EngineMinorGroupName(code) == NameIn(EngineMinorNames, code)

\* `${code} - ${name}`
Crumb(code, name) == code \o <<" - ">> \o name

RECURSIVE Join(_, _)
\* parts.join(sep)
Join(parts, sep) ==
    IF parts = <<>> THEN <<>>
    ELSE IF Len(parts) = 1 THEN parts[1]
    ELSE parts[1] \o sep \o Join(Tail(parts), sep)

\* The parts array with a fourth part for the unit group.
BreadcrumbPartsWithUnit(code) ==
    (IF Len(code) >= 1
     THEN <<Crumb(Substring0(code, 1), EngineMajorGroupName(Substring0(code, 1)))>>
     ELSE <<>>)
    \o (IF Len(code) >= 2
        THEN <<Crumb(Substring0(code, 2),
                     EngineSubMajorGroupName(Substring0(code, 2)))>>
        ELSE <<>>)
    \o (IF Len(code) >= 3
        THEN <<Crumb(Substring0(code, 3),
                     EngineMinorGroupName(Substring0(code, 3)))>>
        ELSE <<>>)
    \o (IF Len(code) >= 4
        THEN <<Crumb(Substring0(code, 4), getUnitGroupName(Substring0(code, 4)))>>
        ELSE <<>>)

\* The parts array of generateBreadcrumb
BreadcrumbParts(code) ==
    (IF Len(code) >= 1
     THEN <<Crumb(Substring0(code, 1), EngineMajorGroupName(Substring0(code, 1)))>>
     ELSE <<>>)
    \o (IF Len(code) >= 2
        THEN <<Crumb(Substring0(code, 2),
                     EngineSubMajorGroupName(Substring0(code, 2)))>>
        ELSE <<>>)
    \o (IF Len(code) >= 3
        THEN <<Crumb(Substring0(code, 3),
                     EngineMinorGroupName(Substring0(code, 3)))>>
        ELSE <<>>)

generateBreadcrumb(occupation) ==
    IF occupation.code = <<>> THEN <<>>
    ELSE Join(BreadcrumbParts(occupation.code), <<" > ">>)

\* Scores are counted in millionths, so that the boosts are exact.
ScoreOne == 1000000

\* { ...occ, score, matches, breadcrumb }
Result(occ, s, m) ==
    [keyId |-> occ.keyId, code |-> occ.code,
     preferredLabel |-> occ.preferredLabel,
     occupationType |-> occ.occupationType,
     score |-> s, matches |-> m, breadcrumb |-> generateBreadcrumb(occ)]

\* The Occupation a SearchResult was spread from.
OccOf(r) == Occ(r.keyId, r.code, r.preferredLabel, r.occupationType)

\* occupation.code?.[0] is in the list
MajorGroupMatches(occupation, majors) ==
    /\ occupation.code # <<>>
    /\ Substring0(occupation.code, 1) \in majors

\* The major-group test made outside its guard: a record without a code
\* fails whatever the filters.
matchesFiltersCodeRequired(occupation, f) ==
    /\ occupation.code # <<>>
    /\ (f.iscoMajorGroups # {} => MajorGroupMatches(occupation, f.iscoMajorGroups))
    /\ (f.occupationTypes # {} =>
            /\ occupation.occupationType # <<>>
            /\ occupation.occupationType \in f.occupationTypes)

\* The two facets joined by OR: one satisfied facet is enough.
matchesFiltersEitherFacet(occupation, f) ==
    LET major == MajorGroupMatches(occupation, f.iscoMajorGroups)
        type  == /\ occupation.occupationType # <<>>
                 /\ occupation.occupationType \in f.occupationTypes
    IN  IF f.iscoMajorGroups # {} /\ f.occupationTypes # {} THEN major \/ type
        ELSE /\ (f.iscoMajorGroups # {} => major)
             /\ (f.occupationTypes # {} => type)

matchesFilters(occupation, f) ==
    /\ (f.iscoMajorGroups # {} => MajorGroupMatches(occupation, f.iscoMajorGroups))
    /\ (f.occupationTypes # {} =>
            /\ occupation.occupationType # <<>>
            /\ occupation.occupationType \in f.occupationTypes)

applyFilters(results, f) ==
    LET keep(r) == matchesFilters(r, f) IN SelectSeq(results, keep)

\* The listing without the filter step.
getFilteredOccupationsUnfiltered(occs, f) ==
    [i \in 1..Len(occs) |-> Result(occs[i], ScoreOne, <<>>)]

getFilteredOccupations(occs, f) ==
    LET keep(o) == matchesFilters(o, f)
        kept == IF f.given THEN SelectSeq(occs, keep) ELSE occs
    IN  [i \in 1..Len(kept) |-> Result(kept[i], ScoreOne, <<>>)]

(***************************************************************************)
(* Fuse.  The index is a library; what it answers for the query is drawn   *)
(* with the inputs: fuseScore[i] is NoMatch or the Fuse score (0 is a      *)
(* perfect match) of record i.  Fuse orders its answer by score, then by   *)
(* position in the list, and cuts it at the limit it is given.             *)
(***************************************************************************)
NoMatch == -1
FuseScores == {0, 250000}

\* The positions Fuse matched, best first.
RECURSIVE FuseRanking(_, _)
FuseRanking(fs, todo) ==
    IF todo = {} THEN <<>>
    ELSE LET best == CHOOSE i \in todo :
                        \A j \in todo : fs[i] < fs[j] \/ (fs[i] = fs[j] /\ i <= j)
         IN  <<best>> \o FuseRanking(fs, todo \ {best})

\* What Fuse reports as the matches of a record it matched: at least one
\* entry; the engine copies the entries and reads none of them.
FuseMatches(occ) ==
    << [key |-> "preferredLabel", value |-> occ.preferredLabel,
        indices |-> << <<0, Len(occ.preferredLabel) - 1>> >>] >>

\* this.fuse.search(query, { limit: n })
FuseSearch(occs, fs, n) ==
    LET ranking == FuseRanking(fs, {i \in 1..Len(occs) : fs[i] # NoMatch})
        cut == Slice0(ranking, n)
    IN  [k \in 1..Len(cut) |->
            [item |-> occs[cut[k]], score |-> fs[cut[k]],
             matches |-> FuseMatches(occs[cut[k]])]]

\* Three times the limit asked of Fuse instead of twice.
FuseLimitTriple(n) == n * 3

\* The limit search gives to Fuse.
FuseLimit(n) == n * 2

(***************************************************************************)
(* new RegExp(`\\b${queryLower}`, 'i').  In the alphabet of the model the  *)
(* pattern characters are '.', which matches any character, and '(',       *)
(* which opens a group that nothing closes: the constructor throws.        *)
(***************************************************************************)
RegExpThrows(pattern) == \E i \in 1..Len(pattern) : pattern[i] = "("

IsWordChar(c) == c \notin {" ", ".", "("}

\* \b at offset p (0..Len(s)) of s
WordBoundaryAt(s, p) ==
    LET before == p >= 1 /\ IsWordChar(s[p])
        after  == p < Len(s) /\ IsWordChar(s[p + 1])
    IN  before # after

\* pattern matches s at offset p, case-insensitively
MatchesAt(pattern, s, p) ==
    /\ p + Len(pattern) <= Len(s)
    /\ \A k \in 1..Len(pattern) :
          \/ pattern[k] = "."
          \/ LowerChar(pattern[k]) = LowerChar(s[p + k])

\* wordBoundaryRegex.test(s)
WordBoundaryTest(pattern, s) ==
    \E p \in 0..Len(s) : WordBoundaryAt(s, p) /\ MatchesAt(pattern, s, p)

\* boostedScore of one result
BoostedScore(result, queryLower) ==
    LET s1 == IF includes(toLowerCase(result.preferredLabel), queryLower)
              THEN (result.score * 13) \div 10 ELSE result.score
        s2 == IF includes(toLowerCase(result.code), queryLower)
              THEN (s1 * 12) \div 10 ELSE s1
    IN  IF WordBoundaryTest(queryLower, result.preferredLabel)
        THEN (s2 * 11) \div 10 ELSE s2

RECURSIVE InsertByScoreTiesFirst(_, _)
\* The insertion of an unstable sort: x goes before the elements of equal
\* score.
InsertByScoreTiesFirst(s, x) ==
    IF s = <<>> THEN <<x>>
    ELSE IF Head(s).score > x.score
         THEN <<Head(s)>> \o InsertByScoreTiesFirst(Tail(s), x)
         ELSE <<x>> \o s

RECURSIVE InsertByScore(_, _)
\* x put into s, which is sorted by descending score, after every element
\* whose score is not smaller
InsertByScore(s, x) ==
    IF s = <<>> THEN <<x>>
    ELSE IF Head(s).score >= x.score
         THEN <<Head(s)>> \o InsertByScore(Tail(s), x)
         ELSE <<x>> \o s

RECURSIVE SortByScoreFrom(_, _)
SortByScoreFrom(sorted, rest) ==
    IF rest = <<>> THEN sorted
    ELSE SortByScoreFrom(InsertByScore(sorted, Head(rest)), Tail(rest))

\* results.map(...).sort((a, b) => b.score - a.score); the callback of map
\* builds the regular expression, so it throws only if there is a result
boostRelevance(results, q) ==
    LET queryLower == toLowerCase(q)
    IN  SortByScoreFrom(<<>>,
            [i \in 1..Len(results) |->
                [results[i] EXCEPT !.score = BoostedScore(results[i], queryLower)]])

boostRelevanceThrows(results, q) ==
    results # <<>> /\ RegExpThrows(toLowerCase(q))

\* The results before boosting: Fuse's answer, transformed and filtered.
FilteredFuseResults(occs, q, f, n, fs) ==
    LET fuseResults == FuseSearch(occs, fs, FuseLimit(n))
        searchResults ==
            [k \in 1..Len(fuseResults) |->
                Result(fuseResults[k].item, ScoreOne - fuseResults[k].score,
                       fuseResults[k].matches)]
    IN  IF f.given THEN applyFilters(searchResults, f) ELSE searchResults

\* search(query, filters, limit): the outcome, a returned list or a throw
search(occs, q, f, n, fs) ==
    IF trim(q) = <<>>
    THEN [raised |-> FALSE, results |-> Slice0(getFilteredOccupations(occs, f), n)]
    ELSE LET searchResults == FilteredFuseResults(occs, q, f, n, fs)
         IN  IF boostRelevanceThrows(searchResults, q)
             THEN [raised |-> TRUE, results |-> <<>>]
             ELSE [raised |-> FALSE,
                   results |-> Slice0(boostRelevance(searchResults, q), n)]

\* Set.prototype.add on a Set kept in insertion order; the absent value
\* (no first character, empty occupationType) is not added.
SetAdd(set, x) ==
    IF x = <<>> \/ \E i \in 1..Len(set) : set[i] = x THEN set ELSE Append(set, x)

RECURSIVE AddAll(_, _)
AddAll(set, xs) ==
    IF xs = <<>> THEN set ELSE AddAll(SetAdd(set, Head(xs)), Tail(xs))

RECURSIVE InsertByCodeUnits(_, _)
InsertByCodeUnits(s, x) ==
    IF s = <<>> THEN <<x>>
    ELSE IF LexLeq(Head(s), x)
         THEN <<Head(s)>> \o InsertByCodeUnits(Tail(s), x)
         ELSE <<x>> \o s

RECURSIVE DefaultSortFrom(_, _)
DefaultSortFrom(sorted, rest) ==
    IF rest = <<>> THEN sorted
    ELSE DefaultSortFrom(InsertByCodeUnits(sorted, Head(rest)), Tail(rest))

\* The array returned as the Set was filled.
DefaultSortLeftOut(s) == s

\* Array.prototype.sort() without a comparator: by UTF-16 code units
DefaultSort(s) == DefaultSortFrom(<<>>, s)

\* The first two characters instead of the first.
FirstTwoChars(code) == Substring0(code, 2)

\* occ.code?.[0], absent for an empty code
FirstChar(code) == IF code = <<>> THEN <<>> ELSE <<code[1]>>

\* getAvailableFilters()
getAvailableFilters(occs) ==
    [iscoMajorGroups |->
        DefaultSort(AddAll(<<>>, [i \in 1..Len(occs) |-> FirstChar(occs[i].code)])),
     occupationTypes |->
        DefaultSort(AddAll(<<>>, [i \in 1..Len(occs) |-> occs[i].occupationType]))]

(***************************************************************************)
(* The state machine.  The inputs of the calls are drawn in Init; the      *)
(* actions are the calls.                                                  *)
(***************************************************************************)
QueryPool ==
    { <<>>, <<" ">>, <<"D", "e">>, <<"(">>, <<"a", ".", "e">>, <<"2", "5">> }

FilterPool ==
    { NoFilters,
      Filters({}, {}),
      Filters({<<"2">>}, {}),
      Filters({}, {<<"x">>}),
      Filters({<<"1">>, <<"2">>}, {<<"x">>}) }

Inputs == <<occupations, query, filters, limit, fuseScore>>

\* The browser's own state, which the calls do not touch.
Controls == <<searchTerm, showFilters, loading>>

\* The result card, which neither the calls nor the browser's handlers
\* touch; no card is rendered in their specifications.
Card == <<cardResult, cardNodes>>

NoCard == <<>>

\* The tree builder's inputs: any list; search is then the plain listing.
TreeInputs ==
    /\ occupations \in SeqsUpTo(TreePool, MaxRecords)
    /\ query = <<>>
    /\ filters = NoFilters
    /\ limit = MaxLimit
    /\ fuseScore = [i \in 1..Len(occupations) |-> NoMatch]

\* The engine's inputs: a list of different records, the arguments of
\* search, and Fuse's answer (Fuse is not asked when the query is blank).
SearchInputs ==
    /\ occupations \in InjSeqs(SearchPool)
    /\ query \in QueryPool
    /\ filters \in FilterPool
    /\ limit \in 0..MaxLimit
    /\ fuseScore \in [1..Len(occupations) -> {NoMatch} \cup FuseScores]
    /\ (trim(query) = <<>> => \A i \in 1..Len(occupations) : fuseScore[i] = NoMatch)

Init ==
    /\ TreeInputs \/ SearchInputs
    /\ tree = <<>>
    /\ prevTree = <<>>
    /\ organizeCalls = 0
    /\ searchCalled = FALSE
    /\ searchOut = [raised |-> FALSE, results |-> <<>>]
    /\ filtersCalled = FALSE
    /\ availableFilters = [iscoMajorGroups |-> <<>>, occupationTypes |-> <<>>]
    /\ searchTerm = query
    /\ showFilters = FALSE
    /\ loading = FALSE
    /\ cardResult = NoCard
    /\ cardNodes = NoCard

\* The call with the sort applied to the held list itself.
OrganizeSortingInPlace ==
    /\ occupations' = SortByCode(occupations)
    /\ tree' = organizeOccupations(occupations')
    /\ prevTree' = tree
    /\ organizeCalls' = Min(organizeCalls + 1, MaxCalls)
    /\ UNCHANGED <<query, filters, limit, fuseScore, searchCalled, searchOut,
                   Controls, Card,
                   filtersCalled, availableFilters>>

\* organizeOccupations(occupations)
Organize ==
    /\ tree' = organizeOccupations(occupations)
    /\ prevTree' = tree
    /\ organizeCalls' = Min(organizeCalls + 1, MaxCalls)
    /\ UNCHANGED <<Inputs, Controls, Card, searchCalled, searchOut,
                   filtersCalled, availableFilters>>

\* searchEngine.search(query, filters, limit)
Search ==
    /\ searchOut' = search(occupations, query, filters, limit, fuseScore)
    /\ searchCalled' = TRUE
    /\ UNCHANGED <<Inputs, Controls, Card, tree, prevTree, organizeCalls,
                   filtersCalled, availableFilters>>

\* searchEngine.getAvailableFilters()
GetAvailableFilters ==
    /\ availableFilters' = getAvailableFilters(occupations)
    /\ filtersCalled' = TRUE
    /\ UNCHANGED <<Inputs, Controls, Card, tree, prevTree, organizeCalls,
                   searchCalled, searchOut>>

Next == Organize \/ Search \/ GetAvailableFilters

Spec == Init /\ [][Next]_vars

(***************************************************************************)
(* The occupation browser.  Its state is the loaded list (occupations),    *)
(* the text of the search box (searchTerm), the debounced text handed to   *)
(* search (query), the chosen filters (filters) and the filter panel       *)
(* (showFilters).  The values computed by useMemo at every render are kept *)
(* in searchOut, tree and availableFilters, and each action ends with the  *)
(* render that follows it.  A render in which search throws takes the      *)
(* component down: no handler is left to run.                              *)
(***************************************************************************)
\* searchEngine.search(debouncedSearchTerm, searchFilters, 50)
BrowserLimit == 50

\* availableFilters.occupationTypes.slice(0, 10)
TypesShown == 10

\* Texts the user types or pastes into the search box.
TermPool == { <<>>, <<" ">>, <<"D", "e">>, <<"(">> }

NoSearchFilters == Filters({}, {})

\* The searchResults memo; the engine is null while loading.
searchResults(occs, ld, q, f, fs) ==
    IF ld \/ trim(q) = <<>>
    THEN [raised |-> FALSE, results |-> <<>>]
    ELSE search(occs, q, f, BrowserLimit, fs)

\* The tree memo with its test of the debounced term left out.
organizedOccupationsAlways(occs, q) == organizeOccupations(occs)

\* The organizedOccupations memo
organizedOccupations(occs, q) ==
    IF trim(q) # <<>> THEN <<>> ELSE organizeOccupations(occs)

\* The availableFilters memo
availableFiltersMemo(occs, ld) ==
    IF ld THEN [iscoMajorGroups |-> <<>>, occupationTypes |-> <<>>]
    ELSE getAvailableFilters(occs)

isSearchMode == Len(trim(query)) > 0

\* What Fuse answers for the term q over the list occs: any ranking, and
\* nothing asked for a blank term.
FuseAnswers(occs, q) ==
    IF trim(q) = <<>> THEN { [i \in 1..Len(occs) |-> NoMatch] }
    ELSE [1..Len(occs) -> {NoMatch} \cup FuseScores]

\* The render after a handler: the three memos over the new state.
Rendered ==
    /\ searchOut' = searchResults(occupations', loading', query', filters',
                                  fuseScore')
    /\ tree' = organizedOccupations(occupations', query')
    /\ availableFilters' = availableFiltersMemo(occupations', loading')

Bookkeeping ==
    <<limit, prevTree, organizeCalls, searchCalled, filtersCalled, Card>>

Mounted == ~searchOut.raised

BrowserInit ==
    /\ occupations = <<>>
    /\ loading = TRUE
    /\ searchTerm = <<>>
    /\ query = <<>>
    /\ filters = NoSearchFilters
    /\ showFilters = FALSE
    /\ limit = BrowserLimit
    /\ fuseScore = <<>>
    /\ tree = <<>>
    /\ prevTree = <<>>
    /\ organizeCalls = 0
    /\ searchCalled = FALSE
    /\ searchOut = [raised |-> FALSE, results |-> <<>>]
    /\ filtersCalled = FALSE
    /\ availableFilters = [iscoMajorGroups |-> <<>>, occupationTypes |-> <<>>]
    /\ cardResult = NoCard
    /\ cardNodes = NoCard

\* loadOccupations().then(data => ...)
Load ==
    /\ Mounted /\ loading
    /\ occupations' \in InjSeqs(SearchPool)
    /\ loading' = FALSE
    /\ fuseScore' \in FuseAnswers(occupations', query)
    /\ UNCHANGED <<searchTerm, query, filters, showFilters, Bookkeeping>>
    /\ Rendered

\* onChange of the search Input
Type ==
    /\ Mounted
    /\ \E t \in TermPool : t # searchTerm /\ searchTerm' = t
    /\ UNCHANGED <<occupations, loading, query, filters, showFilters, fuseScore,
                   Bookkeeping>>
    /\ Rendered

\* useDebouncedSearch: the debounced term takes the value of the term
Debounce ==
    /\ Mounted
    /\ query # searchTerm
    /\ query' = searchTerm
    /\ fuseScore' \in FuseAnswers(occupations, query')
    /\ UNCHANGED <<occupations, loading, searchTerm, filters, showFilters,
                   Bookkeeping>>
    /\ Rendered

\* clearSearch, on the button shown while searchTerm is not empty
ClearSearch ==
    /\ Mounted
    /\ searchTerm # <<>>
    /\ searchTerm' = <<>>
    /\ filters' = NoSearchFilters
    /\ showFilters' = FALSE
    /\ UNCHANGED <<occupations, loading, query, fuseScore, Bookkeeping>>
    /\ Rendered

\* The Filters button, shown in search mode
ToggleShowFilters ==
    /\ Mounted
    /\ isSearchMode
    /\ showFilters' = ~showFilters
    /\ UNCHANGED <<occupations, loading, searchTerm, query, filters, fuseScore,
                   Bookkeeping>>
    /\ Rendered

\* prev[type].includes(value) ? prev[type].filter(v => v !== value)
\*                             : [...prev[type], value]
Toggled(set, value) == IF value \in set THEN set \ {value} ELSE set \cup {value}

\* toggleFilter(type, value), on the buttons of the open filter panel
ToggleFilter ==
    /\ Mounted
    /\ showFilters /\ isSearchMode
    /\ \/ \E i \in 1..Len(availableFilters.iscoMajorGroups) :
             filters' = [filters EXCEPT !.iscoMajorGroups =
                            Toggled(@, availableFilters.iscoMajorGroups[i])]
       \/ \E i \in 1..Min(TypesShown, Len(availableFilters.occupationTypes)) :
             filters' = [filters EXCEPT !.occupationTypes =
                            Toggled(@, availableFilters.occupationTypes[i])]
    /\ UNCHANGED <<occupations, loading, searchTerm, query, showFilters,
                   fuseScore, Bookkeeping>>
    /\ Rendered

\* 'Clear all filters', shown in the open panel while a filter is chosen
ClearAllFilters ==
    /\ Mounted
    /\ showFilters /\ isSearchMode
    /\ Cardinality(filters.iscoMajorGroups)
          + Cardinality(filters.occupationTypes) > 0
    /\ filters' = NoSearchFilters
    /\ UNCHANGED <<occupations, loading, searchTerm, query, showFilters,
                   fuseScore, Bookkeeping>>
    /\ Rendered

BrowserNext ==
    \/ Load \/ Type \/ Debounce \/ ClearSearch
    \/ ToggleShowFilters \/ ToggleFilter \/ ClearAllFilters

BrowserSpec == BrowserInit /\ [][BrowserNext]_vars

(***************************************************************************)
(* The result card.  SearchResultCard renders four texts of a result       *)
(* through HighlightedText; a rendered text is the list of its nodes, a    *)
(* plain string or a <mark> element each.  A match range is <<start, end>>,*)
(* counted from 0, end included, as Fuse gives them.                       *)
(***************************************************************************)
MaxRanges == 2          \* most ranges Fuse gives for one field

\* A string child, or <mark>{text}</mark>
Node(m, t) == [mark |-> m, text |-> t]

\* text.slice(a, b), 0 <= a and 0 <= b
SliceStr(text, a, b) ==
    IF Min(a, Len(text)) >= Min(b, Len(text)) THEN <<>>
    ELSE SubSeq(text, Min(a, Len(text)) + 1, Min(b, Len(text)))

RECURSIVE InsertByStart(_, _)
InsertByStart(s, x) ==
    IF s = <<>> THEN <<x>>
    ELSE IF Head(s)[1] <= x[1]
         THEN <<Head(s)>> \o InsertByStart(Tail(s), x)
         ELSE <<x>> \o s

RECURSIVE SortByStartFrom(_, _)
SortByStartFrom(sorted, rest) ==
    IF rest = <<>> THEN sorted
    ELSE SortByStartFrom(InsertByStart(sorted, Head(rest)), Tail(rest))

\* [...matches].sort((a, b) => a[0] - b[0])
SortByStart(matches) == SortByStartFrom(<<>>, matches)

RECURSIVE HighlightFrom(_, _, _, _)
\* sortedMatches.forEach(...) from lastIndex on, then the remaining text
HighlightFrom(text, sortedMatches, lastIndex, result) ==
    IF sortedMatches = <<>>
    THEN result \o (IF lastIndex < Len(text)
                    THEN <<Node(FALSE, SliceStr(text, lastIndex, Len(text)))>>
                    ELSE <<>>)
    ELSE LET start == Head(sortedMatches)[1]
             end   == Head(sortedMatches)[2]
             before == IF start > lastIndex
                       THEN <<Node(FALSE, SliceStr(text, lastIndex, start))>>
                       ELSE <<>>
         IN  HighlightFrom(text, Tail(sortedMatches), end + 1,
                           result \o before
                               \o <<Node(TRUE, SliceStr(text, start, end + 1))>>)

HighlightedText(text, matches) ==
    IF matches = <<>> THEN <<Node(FALSE, text)>>
    ELSE HighlightFrom(text, SortByStart(matches), 0, <<>>)

RECURSIVE getMatchesForField(_, _)
\* matches.filter(match => match.key === fieldName).flatMap(m => m.indices)
getMatchesForField(matches, fieldName) ==
    IF matches = <<>> THEN <<>>
    ELSE (IF Head(matches).key = fieldName THEN Head(matches).indices ELSE <<>>)
         \o getMatchesForField(Tail(matches), fieldName)

\* a || b on strings
OrElse(a, b) == IF a # <<>> THEN a ELSE b

\* s.split('\n')[0]
FirstLine(s) ==
    IF \E i \in 1..Len(s) : s[i] = "\n"
    THEN SubSeq(s, 1, (CHOOSE i \in 1..Len(s) :
                          s[i] = "\n" /\ \A j \in 1..(i - 1) : s[j] # "\n") - 1)
    ELSE s

\* The texts the card displays.
LabelText(result) == OrElse(result.preferredLabel, <<"Unknown Occupation">>)
CodeText(result) == OrElse(result.code, <<"N/A">>)
DescriptionText(result) ==
    OrElse(result.coreDescription,
           OrElse(result.definition, <<"No description available">>))
AlternateText(result) == FirstLine(result.exampleAlternateDesignation)

\* The four HighlightedText elements of SearchResultCard; the last one is
\* rendered only for a non-empty exampleAlternateDesignation.
SearchResultCard(result) ==
    [label |-> HighlightedText(LabelText(result),
                   getMatchesForField(result.matches, "preferredLabel")),
     code |-> HighlightedText(CodeText(result),
                   getMatchesForField(result.matches, "code")),
     description |-> HighlightedText(DescriptionText(result),
                   getMatchesForField(result.matches, "coreDescription")
                   \o getMatchesForField(result.matches, "definition")),
     alternate |-> IF result.exampleAlternateDesignation # <<>>
                   THEN HighlightedText(AlternateText(result),
                            getMatchesForField(result.matches,
                                               "exampleAlternateDesignation"))
                   ELSE <<>>]

\* The ranges inside a value of n characters, and the lists of at most
\* MaxRanges of them, ascending and pairwise apart, that Fuse may give.
Ranges(n) == { r \in (0..(n - 1)) \X (0..(n - 1)) : r[1] <= r[2] }

RangeLists(n) ==
    { l \in SeqsUpTo(Ranges(n), MaxRanges) :
        \A i \in 1..(Len(l) - 1) : l[i][2] < l[i + 1][1] }

\* One entry of result.matches, or none when the field has no range.
FieldMatch(k, v, l) ==
    IF l = <<>> THEN <<>> ELSE <<[key |-> k, value |-> v, indices |-> l]>>

CardInit ==
    /\ \E label \in {<<>>, <<"a", "b">>},
          code \in {<<>>, <<"1", "2">>},
          core \in {<<>>, <<"a", "b">>},
          def \in {<<>>, <<"a", "b", "a">>},
          alt \in {<<>>, <<"a", "\n", "b">>} :
         \E ll \in RangeLists(Len(label)), lc \in RangeLists(Len(code)),
            lo \in RangeLists(Len(core)), ld \in RangeLists(Len(def)),
            la \in RangeLists(Len(alt)) :
             cardResult =
                 [preferredLabel |-> label, code |-> code,
                  coreDescription |-> core, definition |-> def,
                  exampleAlternateDesignation |-> alt,
                  matches |-> FieldMatch("preferredLabel", label, ll)
                              \o FieldMatch("code", code, lc)
                              \o FieldMatch("coreDescription", core, lo)
                              \o FieldMatch("definition", def, ld)
                              \o FieldMatch("exampleAlternateDesignation",
                                            alt, la)]
    /\ cardNodes = NoCard
    /\ occupations = <<>>
    /\ query = <<>>
    /\ filters = NoFilters
    /\ limit = 0
    /\ fuseScore = <<>>
    /\ tree = <<>>
    /\ prevTree = <<>>
    /\ organizeCalls = 0
    /\ searchCalled = FALSE
    /\ searchOut = [raised |-> FALSE, results |-> <<>>]
    /\ filtersCalled = FALSE
    /\ availableFilters = [iscoMajorGroups |-> <<>>, occupationTypes |-> <<>>]
    /\ searchTerm = <<>>
    /\ showFilters = FALSE
    /\ loading = FALSE

\* <SearchResultCard result={result} />
RenderCard ==
    /\ cardNodes' = SearchResultCard(cardResult)
    /\ UNCHANGED <<Inputs, Controls, cardResult, tree, prevTree, organizeCalls,
                   searchCalled, searchOut, filtersCalled, availableFilters>>

CardNext == RenderCard

CardSpec == CardInit /\ [][CardNext]_vars

(***************************************************************************)
(* Reading a returned tree.                                                *)
(***************************************************************************)
RECURSIVE AllGroups(_)
\* Every OccupationGroup of the forest, at any depth.
AllGroups(forest) ==
    UNION { IF IsGroup(forest[i])
            THEN {forest[i]} \cup AllGroups(forest[i].children)
            ELSE {} : i \in 1..Len(forest) }

RECURSIVE RecordsUnder(_)
\* Every Occupation of the forest, at any depth.
RecordsUnder(forest) ==
    UNION { IF IsGroup(forest[i])
            THEN RecordsUnder(forest[i].children)
            ELSE {forest[i]} : i \in 1..Len(forest) }

\* The groups that have the record r as a direct child.
ParentsOf(forest, r) ==
    { g \in AllGroups(forest) :
        \E j \in 1..Len(g.children) : g.children[j] = r }

\* The child lists of the tree: the root list and every group's children.
ChildLists(forest) == {forest} \cup { g.children : g \in AllGroups(forest) }

Organized == organizeCalls >= 1

\* The records of the held list.
Held == { occupations[i] : i \in 1..Len(occupations) }

\* The part of the code the tree builder reads.
MainCode(r) == SplitDotFirst(r.code)

(***************************************************************************)
(* Claims about the tree.                                                  *)
(***************************************************************************)

\* C1, as stated: every record of the list whose code is non-empty is in the
\* returned tree as a child of a group whose code is a prefix of its code.
C1_EveryCodedRecordPlaced ==
    Organized =>
        \A r \in Held :
            r.code # <<>> =>
                \E g \in ParentsOf(tree, r) : IsPrefix(g.code, r.code)

\* C1, amended: every record of the list whose code has a non-empty part
\* before the first '.' is in the returned tree as a child of a group whose
\* code is a prefix of its code.
C1_EveryMainCodedRecordPlaced ==
    Organized =>
        \A r \in Held :
            MainCode(r) # <<>> =>
                \E g \in ParentsOf(tree, r) : IsPrefix(g.code, r.code)

\* A tree was built from a list holding a record with a '.' suffix and a
\* record of a three-character code, and both are in it.
C1_Witness ==
    /\ Organized
    /\ \E r, q \in Held :
          /\ r.code = <<"2", "5", "1", "2", ".", "1">>
          /\ q.code = <<"2", "5", "1">>
          /\ ParentsOf(tree, r) # {} /\ ParentsOf(tree, q) # {}

\* C2: the parent of every placed record has the code made of the first
\* min(4, length(p)) characters of p, the part of the record's code before
\* the first '.'.
C2_ParentIsDeepestLevel ==
    Organized =>
        \A r \in Held :
            MainCode(r) # <<>> =>
                \A g \in ParentsOf(tree, r) :
                    g.code = Substring0(MainCode(r), Min(4, Len(MainCode(r))))

\* C3, as stated: the code of every group is a strict prefix of the code of
\* every record below it.
C3_GroupCodeStrictPrefix ==
    Organized =>
        \A g \in AllGroups(tree) :
            \A r \in RecordsUnder(g.children) :
                IsPrefix(g.code, r.code) /\ Len(g.code) < Len(r.code)

\* C3, amended: the code of every group is a prefix, possibly the whole, of
\* the code of every record below it.
C3_GroupCodePrefix ==
    Organized =>
        \A g \in AllGroups(tree) :
            \A r \in RecordsUnder(g.children) : IsPrefix(g.code, r.code)

\* A tree with two unit groups below one minor group, each holding a record.
C3_Witness ==
    /\ Organized
    /\ \E g, h \in AllGroups(tree) :
          /\ g.code = <<"2", "5", "1", "1">> /\ h.code = <<"2", "5", "1", "2">>
          /\ RecordsUnder(g.children) # {} /\ RecordsUnder(h.children) # {}

\* C4: the root list and every group's children list are sorted by code in
\* lexicographic order, groups and records alike.
C4_ChildrenSortedLexicographically ==
    Organized =>
        \A l \in ChildLists(tree) :
            \A i \in 1..(Len(l) - 1) : LexLeq(l[i].code, l[i + 1].code)

\* The list in another order: p is a permutation of its positions.
Permuted(occs, p) == [i \in 1..Len(occs) |-> occs[p[i]]]

\* C5, as stated: the tree built from any permutation of the list is the
\* tree built from the list.
C5_PermutationInvariant ==
    Organized =>
        \A p \in Permutations(1..Len(occupations)) :
            organizeOccupations(Permuted(occupations, p)) = tree

\* No two records of the list have codes that the comparator of the sort
\* finds equal.
NoEqualCodes(occs) ==
    \A i, j \in 1..Len(occs) :
        i # j => localeCompare(occs[i].code, occs[j].code) # 0

\* C5, amended: when no two records of the list have codes that compare
\* equal, the tree built from any permutation of the list is the tree built
\* from the list.
C5_PermutationInvariantWithoutTies ==
    (Organized /\ NoEqualCodes(occupations)) =>
        \A p \in Permutations(1..Len(occupations)) :
            organizeOccupations(Permuted(occupations, p)) = tree

\* A tree built from two records of different codes given out of order,
\* both siblings in it.
C5_Witness ==
    /\ Organized
    /\ Len(occupations) = 2
    /\ NoEqualCodes(occupations)
    /\ localeCompare(occupations[1].code, occupations[2].code) > 0
    /\ \E l \in ChildLists(tree) : l = <<occupations[2], occupations[1]>>

Results == searchOut.results

Blank == trim(query) = <<>>

\* The record satisfies the filters of the call: one of the values of each
\* non-empty set.
SatisfiesFilters(r) ==
    /\ (filters.iscoMajorGroups # {} =>
            r.code # <<>> /\ <<r.code[1]>> \in filters.iscoMajorGroups)
    /\ (filters.occupationTypes # {} =>
            r.occupationType \in filters.occupationTypes)

\* The positions of the held list whose records satisfy the filters.
Satisfying == { i \in 1..Len(occupations) : SatisfiesFilters(occupations[i]) }

\* The k-th smallest element of a set of positions.
Nth(S, k) == CHOOSE i \in S : Cardinality({ j \in S : j < i }) = k - 1

\* The positions Fuse matched, and those it ranks ahead of position i.
Matched == { i \in 1..Len(occupations) : fuseScore[i] # NoMatch }

RankedAhead(i) ==
    { j \in Matched :
        fuseScore[j] < fuseScore[i] \/ (fuseScore[j] = fuseScore[i] /\ j < i) }

\* C7: organizeOccupations returns the empty list for the empty list and
\* leaves a record of empty code out of the tree; search with a blank query
\* and no major-group filter does not throw and returns that record when it
\* satisfies the filters and fewer than limit satisfying records precede it.
C7_EmptyCodeSkippedButSearchable ==
    /\ (Organized /\ occupations = <<>>) => tree = <<>>
    /\ Organized => \A r \in RecordsUnder(tree) : r.code # <<>>
    /\ (searchCalled /\ Blank /\ filters.iscoMajorGroups = {}) =>
          /\ ~searchOut.raised
          /\ \A i \in Satisfying :
                (/\ occupations[i].code = <<>>
                 /\ Cardinality({ j \in Satisfying : j < i }) < limit)
                => \E k \in 1..Len(Results) : OccOf(Results[k]) = occupations[i]

\* A list with a record of empty code and a record the tree takes: the tree
\* was built without the first, and the blank search returned it.
C7_Witness ==
    /\ Organized /\ searchCalled /\ Blank
    /\ \E r \in Held :
          /\ r.code = <<>>
          /\ r \notin RecordsUnder(tree)
          /\ \E k \in 1..Len(Results) : OccOf(Results[k]) = r
    /\ RecordsUnder(tree) # {}

\* C8: every result of search satisfies the filters, and when both sets are
\* empty filtering drops nothing: search returns as many results as the
\* limit allows out of the whole list (blank query) or out of Fuse's matches.
C8_ResultsSatisfyFilters ==
    searchCalled =>
        /\ \A k \in 1..Len(Results) : SatisfiesFilters(Results[k])
        /\ (/\ filters.iscoMajorGroups = {} /\ filters.occupationTypes = {}
            /\ ~searchOut.raised)
           => Len(Results) =
                 Min(limit, IF Blank THEN Len(occupations) ELSE Cardinality(Matched))

\* A query was searched under a filter on both facets; one matched record
\* was returned and another one was dropped.
C8_Witness ==
    /\ searchCalled /\ ~Blank
    /\ filters.iscoMajorGroups # {} /\ filters.occupationTypes # {}
    /\ Len(Results) >= 1
    /\ \E i \in Matched : ~SatisfiesFilters(occupations[i])

\* C9: for a blank query search returns the records of the list that
\* satisfy the filters, in the order of the list, cut to the first limit of
\* them, each with score 1 and no matches.
C9_BlankQueryListsFiltered ==
    (searchCalled /\ Blank) =>
        /\ ~searchOut.raised
        /\ Len(Results) = Min(limit, Cardinality(Satisfying))
        /\ \A k \in 1..Len(Results) :
              /\ OccOf(Results[k]) = occupations[Nth(Satisfying, k)]
              /\ Results[k].score = ScoreOne
              /\ Results[k].matches = <<>>

\* A query of one blank was searched under a filter that some record fails,
\* and more records satisfy the filter than the limit lets through.
C9_Witness ==
    /\ searchCalled /\ query = <<" ">>
    /\ limit >= 1 /\ Len(Results) = limit
    /\ Cardinality(Satisfying) > limit
    /\ Cardinality(Satisfying) < Len(occupations)

\* C10: search returns at most limit results; they are records of the list,
\* each position of the list being used at most once; for a non-blank query
\* each comes from the first 2*limit answers of Fuse.
C10_AtMostLimitDistinctResults ==
    searchCalled =>
        /\ Len(Results) <= limit
        /\ \E f \in [1..Len(Results) -> 1..Len(occupations)] :
              /\ \A k, l \in 1..Len(Results) : f[k] = f[l] => k = l
              /\ \A k \in 1..Len(Results) :
                    /\ OccOf(Results[k]) = occupations[f[k]]
                    /\ ~Blank =>
                          /\ f[k] \in Matched
                          /\ Cardinality(RankedAhead(f[k])) < 2 * limit

\* A query was searched with limit 1 while Fuse matched three records, and
\* one result came back.
C10_Witness ==
    /\ searchCalled /\ ~Blank
    /\ limit = 1
    /\ Cardinality(Matched) = 3
    /\ Len(Results) = 1

\* The position in the held list of the record a result was spread from
\* (the engine's lists hold different records).
IdxOf(r) == CHOOSE i \in 1..Len(occupations) : occupations[i] = OccOf(r)

\* The positions Fuse hands to search under the limit, and those of them
\* that satisfy the filters.
Handed == { i \in Matched : Cardinality(RankedAhead(i)) < 2 * limit }

Candidates == { i \in Handed : SatisfiesFilters(occupations[i]) }

\* The boosted score the engine gives to the record at position i.
BoostedAt(i) ==
    BoostedScore(Result(occupations[i], ScoreOne - fuseScore[i], <<>>),
                 toLowerCase(query))

Returned == searchCalled /\ ~Blank /\ ~searchOut.raised

\* C11: for a non-blank query the returned list is in non-increasing order
\* of boosted score, results of equal boosted score are in the order Fuse
\* ranked them, and the cut to limit comes after the sort: a candidate that
\* was cut off has no higher score than any result.
C11_SortedStableThenTruncated ==
    Returned =>
        /\ \A k, l \in 1..Len(Results) :
              k < l =>
                 /\ Results[k].score >= Results[l].score
                 /\ Results[k].score = Results[l].score
                       => IdxOf(Results[k]) \in RankedAhead(IdxOf(Results[l]))
        /\ \A i \in Candidates :
              (\A k \in 1..Len(Results) : IdxOf(Results[k]) # i) =>
                 /\ Len(Results) = limit
                 /\ \A k \in 1..Len(Results) : BoostedAt(i) <= Results[k].score

\* Three candidates under limit 2: the two results have the same boosted
\* score, and the one Fuse ranked first was cut off.
C11_Witness ==
    /\ Returned
    /\ limit = 2 /\ Cardinality(Candidates) = 3
    /\ Len(Results) = 2
    /\ Results[1].score = Results[2].score
    /\ \E i \in Candidates :
          /\ RankedAhead(i) = {}
          /\ \A k \in 1..Len(Results) : IdxOf(Results[k]) # i

\* C12: search never raises: every call returns a result list, whatever the
\* query (punctuation included), the filters and the limit.
C12_SearchNeverRaises == searchCalled => ~searchOut.raised

\* The breadcrumb the statement gives for the code "2512".
Breadcrumb2512 ==
    <<"2", " - ", "Professionals", " > ",
      "2", "5", " - ",
      "Information and communications technology professionals", " > ",
      "2", "5", "1", " - ",
      "Software and applications developers and analysts">>

\* C13: the breadcrumb of a record with code "2512" is "2 - Professionals >
\* 25 - Information and communications technology professionals > 251 -
\* Software and applications developers and analysts".
C13_Breadcrumb2512 ==
    searchCalled =>
        \A k \in 1..Len(Results) :
            Results[k].code = <<"2", "5", "1", "2">>
                => Results[k].breadcrumb = Breadcrumb2512

RECURSIVE SplitOn(_, _)
\* The segments of a display string between the pieces equal to sep.
SplitOn(s, sep) ==
    IF \A i \in 1..Len(s) : s[i] # sep THEN <<s>>
    ELSE LET i == CHOOSE j \in 1..Len(s) :
                      s[j] = sep /\ \A h \in 1..(j - 1) : s[h] # sep
         IN  <<SubSeq(s, 1, i - 1)>> \o SplitOn(SubSeq(s, i + 1, Len(s)), sep)

\* The segments of the breadcrumb of a result.
Segments(r) == IF r.breadcrumb = <<>> THEN <<>> ELSE SplitOn(r.breadcrumb, " > ")

\* C14: the breadcrumb is empty for an empty code; otherwise it joins with
\* " > " one "{prefix} - {name}" segment for each of the prefixes of 1, 2 and
\* 3 characters the code is long enough for, so it has at most 3 segments
\* and none for the unit level or the record.
C14_BreadcrumbSegments ==
    searchCalled =>
        \A k \in 1..Len(Results) :
            LET code == Results[k].code
                segs == Segments(Results[k])
            IN  /\ code = <<>> => Results[k].breadcrumb = <<>>
                /\ Len(segs) = Min(3, Len(code))
                /\ \A n \in 1..Len(segs) :
                      /\ IsPrefix(Substring0(code, n) \o <<" - ">>, segs[n])
                      /\ Len(segs[n]) > n + 1
                      /\ \A j \in (n + 2)..Len(segs[n]) :
                            segs[n][j] \notin {" - ", " > "}

\* One list of results with a code of 5 characters (3 segments) and an
\* empty code (no breadcrumb).
C14_Witness ==
    /\ searchCalled
    /\ \E k, l \in 1..Len(Results) :
          /\ Len(Results[k].code) = 5 /\ Len(Segments(Results[k])) = 3
          /\ Results[l].code = <<>> /\ Results[l].breadcrumb = <<>>

(***************************************************************************)
(* Claims about the available filters and about the calls as a whole.      *)
(***************************************************************************)
\* The list holds each element of the set S once, in ascending order.
SortedListOf(list, S) ==
    /\ { list[i] : i \in 1..Len(list) } = S
    /\ Len(list) = Cardinality(S)
    /\ \A i, j \in 1..Len(list) : i < j => LexLeq(list[i], list[j])

\* Every record of the held list has a code that starts with "25" or "13",
\* and both occur.
Only25And13 ==
    /\ \A r \in Held : \/ IsPrefix(<<"2", "5">>, r.code)
                       \/ IsPrefix(<<"1", "3">>, r.code)
    /\ \E r \in Held : IsPrefix(<<"2", "5">>, r.code)
    /\ \E r \in Held : IsPrefix(<<"1", "3">>, r.code)

\* C15: getAvailableFilters returns as iscoMajorGroups the sorted,
\* duplicate-free first characters of the non-empty codes and as
\* occupationTypes the sorted, duplicate-free non-empty occupationType
\* values; codes that all start with "25" or "13" give "1", "2".
C15_AvailableFiltersSortedSets ==
    filtersCalled =>
        /\ SortedListOf(availableFilters.iscoMajorGroups,
                        { <<r.code[1]>> : r \in { h \in Held : h.code # <<>> } })
        /\ SortedListOf(availableFilters.occupationTypes,
                        { r.occupationType :
                            r \in { h \in Held : h.occupationType # <<>> } })
        /\ Only25And13 =>
              availableFilters.iscoMajorGroups = << <<"1">>, <<"2">> >>

\* The list holds a code "25" before a code "13", of types "y" and "x": both
\* arrays come back in the other order than the records were met.
C15_Witness ==
    /\ filtersCalled
    /\ Only25And13
    /\ Len(occupations) = 2
    /\ occupations[1].code = <<"2", "5">> /\ occupations[1].occupationType = <<"y">>
    /\ occupations[2].code = <<"1", "3">> /\ occupations[2].occupationType = <<"x">>
    /\ availableFilters.iscoMajorGroups = << <<"1">>, <<"2">> >>
    /\ availableFilters.occupationTypes = << <<"x">>, <<"y">> >>

LiteralAt(q, s, p) ==
    /\ p + Len(q) <= Len(s)
    /\ \A k \in 1..Len(q) : LowerChar(q[k]) = LowerChar(s[p + k])

\* The query occurs at a word boundary of s.
OccursAtWordBoundary(q, s) ==
    \E p \in 0..Len(s) : WordBoundaryAt(s, p) /\ LiteralAt(q, s, p)

\* The score the statement gives to the record at position i: the raw score
\* times each of the boosts that applies.
StatedScore(i) ==
    LET r   == occupations[i]
        q   == toLowerCase(query)
        raw == ScoreOne - fuseScore[i]
        s1  == IF includes(toLowerCase(r.preferredLabel), q)
               THEN (raw * 13) \div 10 ELSE raw
        s2  == IF includes(toLowerCase(r.code), q) THEN (s1 * 12) \div 10 ELSE s1
    IN  IF OccursAtWordBoundary(query, r.preferredLabel)
        THEN (s2 * 11) \div 10 ELSE s2

\* C17: for a non-empty query the score of each result is its raw score
\* times 1.3 if the lowercased query is a literal substring of the
\* lowercased preferredLabel, times 1.2 if it is one of the lowercased code,
\* times 1.1 if the query occurs at a word boundary in preferredLabel; so
\* it is never below the raw score.
C17_ScoreIsRawTimesBoosts ==
    Returned =>
        \A k \in 1..Len(Results) :
            /\ Results[k].score = StatedScore(IdxOf(Results[k]))
            /\ Results[k].score >= ScoreOne - fuseScore[IdxOf(Results[k])]

\* C18: groups are made when the first record needs them and used again by
\* the later records of the same prefix: every group has a record beneath
\* it, and neither the roots nor the children of a group hold two groups of
\* the same code.
C18_SiblingGroupsDistinct ==
    Organized =>
        /\ \A g \in AllGroups(tree) : RecordsUnder(g.children) # {}
        /\ \A list \in ChildLists(tree) :
              \A i, j \in 1..Len(list) :
                  (i < j /\ IsGroup(list[i]) /\ IsGroup(list[j]))
                      => list[i].code # list[j].code

\* Two records of different unit groups share the groups 2, 25 and 251: one
\* root, and a minor group with the two unit groups.
C18_Witness ==
    /\ Organized
    /\ Len(occupations) = 2
    /\ occupations[1].code = <<"2", "5", "1", "2">>
    /\ occupations[2].code = <<"2", "5", "1", "1">>
    /\ Len(tree) = 1
    /\ \E g \in AllGroups(tree) :
          /\ g.code = <<"2", "5", "1">>
          /\ Len(g.children) = 2
          /\ IsGroup(g.children[1]) /\ IsGroup(g.children[2])

\* C19: the tree builder and the breadcrumb use one mapping from group code
\* to name: the name in a breadcrumb segment for a code is the name of the
\* group of that code in the tree built from the same list.
C19_BreadcrumbNamesAreTreeNames ==
    (Organized /\ searchCalled) =>
        \A k \in 1..Len(Results) :
            LET segs == Segments(Results[k])
            IN  \A n \in 1..Len(segs) :
                    \A g \in AllGroups(tree) :
                        g.code = Substring0(Results[k].code, n)
                            => SubSeq(segs[n], n + 2, Len(segs[n])) = g.name

(***************************************************************************)
(* Further claims about the tree.                                          *)
(***************************************************************************)
RECURSIVE LeafCount(_, _)
\* How many times the record r is a child in the forest, at any depth.
LeafCount(forest, r) ==
    IF forest = <<>> THEN 0
    ELSE (IF IsGroup(Head(forest)) THEN LeafCount(Head(forest).children, r)
          ELSE IF Head(forest) = r THEN 1 ELSE 0)
         + LeafCount(Tail(forest), r)

\* How many positions of the held list hold the record r.
InputCount(r) == Cardinality({ i \in 1..Len(occupations) : occupations[i] = r })

\* C22: the tree conserves records: a record whose code has a non-empty
\* part before the first '.' is a child in the tree as many times as it is
\* in the list (once when it is there once), and no other record is in the
\* tree, so there are as many record leaves as such records in the list.
C22_TreeConservesRecords ==
    Organized =>
        /\ RecordsUnder(tree) \subseteq Held
        /\ \A r \in Held :
              LeafCount(tree, r) = IF MainCode(r) # <<>> THEN InputCount(r) ELSE 0

\* The list holds one record twice (two leaves), or a record with a main
\* code next to one without (one leaf).
C22_Witness ==
    /\ Organized
    /\ Len(occupations) = 2
    /\ \/ /\ occupations[1] = occupations[2]
          /\ LeafCount(tree, occupations[1]) = 2
       \/ /\ MainCode(occupations[1]) = <<>> /\ occupations[1].code # <<>>
          /\ LeafCount(tree, occupations[1]) = 0
          /\ LeafCount(tree, occupations[2]) = 1

\* The groups directly below the group g.
ChildGroups(g) ==
    { g.children[i] : i \in { j \in 1..Len(g.children) : IsGroup(g.children[j]) } }

\* C23: every root group has a code of 1 character and every group below a
\* group of code c has a code one character longer that starts with c, so
\* groups nest at most 4 deep and a unit group of 4 characters is never
\* directly below a sub-major group of 2.
C23_GroupsNestOneCharacterAtATime ==
    Organized =>
        /\ \A i \in 1..Len(tree) : IsGroup(tree[i]) /\ Len(tree[i].code) = 1
        /\ \A g \in AllGroups(tree) :
              /\ Len(g.code) <= 4
              /\ \A h \in ChildGroups(g) :
                    Len(h.code) = Len(g.code) + 1 /\ IsPrefix(g.code, h.code)

\* A tree of four levels: the unit group 2512 is below 251, below 25,
\* below 2.
C23_Witness ==
    /\ Organized
    /\ \E g \in AllGroups(tree) :
          /\ g.code = <<"2", "5">>
          /\ \E m \in ChildGroups(g) :
                /\ m.code = <<"2", "5", "1">>
                /\ \E u \in ChildGroups(m) : u.code = <<"2", "5", "1", "2">>

\* C24: the tree has no empty group: every group has a record below it, so
\* its children list is not empty.
C24_NoEmptyGroups ==
    Organized =>
        \A g \in AllGroups(tree) :
            g.children # <<>> /\ \E r \in Held : LeafCount(g.children, r) >= 1

\* A tree whose groups of four levels hold one record, at the bottom.
C24_Witness ==
    /\ Organized
    /\ Len(occupations) = 1
    /\ Cardinality(AllGroups(tree)) = 4
    /\ \A g \in AllGroups(tree) : Len(g.children) = 1

\* The codes of the root groups, and the major groups offered as filters.
RootCodes == { tree[i].code : i \in 1..Len(tree) }

OfferedMajorGroups ==
    { availableFilters.iscoMajorGroups[i] :
        i \in 1..Len(availableFilters.iscoMajorGroups) }

\* C30, as stated: for every record list the codes of the roots of the tree
\* are the iscoMajorGroups of getAvailableFilters.
C30_FacetsAreRootCodes ==
    (Organized /\ filtersCalled) => RootCodes = OfferedMajorGroups

\* C30, amended: for every record list in which no code begins with '.',
\* the codes of the roots of the tree are the iscoMajorGroups of
\* getAvailableFilters.
C30_FacetsAreRootCodesWithoutLeadingDot ==
    (Organized /\ filtersCalled /\ \A r \in Held : ~IsPrefix(<<".">>, r.code))
        => RootCodes = OfferedMajorGroups

\* A list of two major groups, one of the codes with a '.' suffix: the two
\* roots are the two facets.
C30_Witness ==
    /\ Organized /\ filtersCalled
    /\ \A r \in Held : ~IsPrefix(<<".">>, r.code)
    /\ \E r \in Held : \E i \in 1..Len(r.code) : r.code[i] = "."
    /\ Cardinality(RootCodes) = 2
    /\ RootCodes = OfferedMajorGroups

\* The prefix a breadcrumb segment names: the part before " - ".
SegmentPrefix(seg) ==
    SubSeq(seg, 1, (CHOOSE i \in 1..Len(seg) :
                        seg[i] = " - " /\ \A h \in 1..(i - 1) : seg[h] # " - ") - 1)

\* The codes of the major, sub-major and minor groups above the record r.
AncestorCodes(r) ==
    { g.code : g \in { h \in AllGroups(tree) :
                         r \in RecordsUnder(h.children) /\ Len(h.code) <= 3 } }

\* C27: for every record placed in the tree, the prefixes named by the
\* segments of its breadcrumb are the codes of its major, sub-major and
\* minor ancestor groups, from the root down, codes with a '.' suffix
\* included.
C27_BreadcrumbNamesAncestors ==
    (Organized /\ searchCalled) =>
        \A k \in 1..Len(Results) :
            OccOf(Results[k]) \in RecordsUnder(tree) =>
                LET segs == Segments(Results[k])
                IN  /\ { SegmentPrefix(segs[n]) : n \in 1..Len(segs) }
                          = AncestorCodes(OccOf(Results[k]))
                    /\ \A n \in 1..Len(segs) : Len(SegmentPrefix(segs[n])) = n

\* C25: filtering loses no eligible record: for a non-empty query, when
\* search returns fewer than limit results, every record that Fuse matches
\* and that satisfies the filters is in the returned list.
C25_FilteringLosesNoEligibleRecord ==
    (Returned /\ Len(Results) < limit) =>
        \A i \in Matched :
            SatisfiesFilters(occupations[i])
                => \E k \in 1..Len(Results) : IdxOf(Results[k]) = i

\* The products of boosts the statement allows, in thousandths.
StatedRatios == {1000, 1200, 1300, 1430, 1560, 1716}

\* C26: for every query and result the word-boundary boost is applied only
\* together with the label-substring boost, so the boosted score is the raw
\* score times 1, 1.2, 1.3, 1.43, 1.56 or 1.716, never 1.1 or 1.32.
C26_BoundaryBoostOnlyWithLabelBoost ==
    Returned =>
        \A k \in 1..Len(Results) :
            LET raw == ScoreOne - fuseScore[IdxOf(Results[k])]
            IN  /\ \E f \in StatedRatios : Results[k].score * 1000 = raw * f
                /\ WordBoundaryTest(toLowerCase(query), Results[k].preferredLabel)
                      => includes(toLowerCase(Results[k].preferredLabel),
                                  toLowerCase(query))

(***************************************************************************)
(* Claims about the occupation browser.                                    *)
(***************************************************************************)
\* C21: browse mode and search mode exclude each other: at most one of the
\* two views is computed non-empty, the tree only while the debounced term
\* is blank and the search results only while it is not, and both hold
\* records of the one loaded list.
C21_ViewsMutuallyExclusive ==
    /\ ~(tree # <<>> /\ Results # <<>>)
    /\ tree # <<>> => ~isSearchMode
    /\ Results # <<>> => isSearchMode
    /\ RecordsUnder(tree) \subseteq Held
    /\ \A k \in 1..Len(Results) : OccOf(Results[k]) \in Held

\* Search mode over a list that has a tree: the results are computed and
\* the tree is not.
C21_Witness ==
    /\ isSearchMode
    /\ Results # <<>>
    /\ tree = <<>>
    /\ organizeOccupations(occupations) # <<>>

\* C29: in the browser, after any sequence of user actions, whenever the
\* search box is empty both filter sets are empty, whether the term was
\* cleared with the clear button or by editing the text.
C29_EmptyBoxMeansNoFilters ==
    searchTerm = <<>> =>
        filters.iscoMajorGroups = {} /\ filters.occupationTypes = {}

(***************************************************************************)
(* Claims about the result card.                                           *)
(***************************************************************************)
RECURSIVE TextOf(_)
\* The rendered nodes with the marks removed: their texts, joined.
TextOf(nodes) ==
    IF nodes = <<>> THEN <<>> ELSE Head(nodes).text \o TextOf(Tail(nodes))

CardRendered == cardNodes # NoCard

\* C28: highlighting preserves the displayed text: for a result whose match
\* ranges do not overlap within a field, the label, the code, the
\* description and the alternate designation rendered by the card are,
\* with the marks removed, the displayed strings, no character doubled or
\* lost.
C28_HighlightPreservesText ==
    CardRendered =>
        /\ TextOf(cardNodes.label) = LabelText(cardResult)
        /\ TextOf(cardNodes.code) = CodeText(cardResult)
        /\ TextOf(cardNodes.description) = DescriptionText(cardResult)
        /\ cardResult.exampleAlternateDesignation # <<>>
              => TextOf(cardNodes.alternate) = AlternateText(cardResult)

====
